---- MODULE Spec2Model ----
(***************************************************************************)
(* Episode runners and training loop of main.py (cooperative_learning).    *)
(*                                                                         *)
(* Numbers are integers: a reward is counted in half units (1.0 is 2,      *)
(* -0.5 is -1), a standard deviation in units of the smallest step of the  *)
(* annealing schedule.  A regression target, which the code computes with  *)
(* a real division by the variance, is kept as the exact fraction          *)
(* <<numerator, denominator>>.                                             *)
(*                                                                         *)
(* The environment, the two networks and the module `interface` are        *)
(* collaborators: the environment answers a step with any reward and any   *)
(* terminal flag, a network's parameters are the number of training calls  *)
(* it has received, and its prediction is a fixed function of parameters   *)
(* and input row.                                                          *)
(***************************************************************************)
EXTENDS Integers, Sequences, FiniteSets, TLC

VARIABLES
  entry,          \* "main": the script runs main(); "call": one runner is called directly
  tpc,            \* position in main() / get_test_reward()
  i,              \* main: loop index of the training loop
  stddev,         \* main: exploration standard deviation
  stddev_delta,   \* main: anneal step
  actorParams,    \* parameters of the actor network
  criticParams,   \* parameters of the critic network
  testN,          \* get_test_reward: num_testing_iterations
  testIdx,        \* get_test_reward: loop index
  ave_reward,     \* get_test_reward: accumulated reward
  ave_steps,      \* get_test_reward: accumulated steps
  snap,           \* <<actorParams, criticParams, stddev>> when get_test_reward was entered
  runner,         \* the runner executing: "none", "nn", "ac", "mc"
  render,         \* runner argument render
  recorder,       \* runner argument recorder (run_nn_policy), as a flag
  epStddev,       \* runner argument stddev
  epc,            \* position in the runner: "idle", "loop", "walk", "returned", "raised"
  num_cars,       \* len(env._cars)
  old_state,      \* the state the next action is chosen in (state in run_nn_policy)
  total_reward,
  num_steps,
  episode,        \* run_monte_carlo_episode: the recorded transitions
  Gt,             \* run_monte_carlo_episode: the running return of the walk
  walkIdx,        \* run_monte_carlo_episode: transitions consumed by the walk
  state_batch,
  target_batch,
  retval,         \* what the runner returned, <<>> before it returns
  resets,         \* env.reset calls of this episode
  envRewards,     \* rewards env.step returned in this episode, in order
  termSeen,       \* env.step has returned is_terminal = True in this episode
  stepsAfterTerm, \* env.step calls made after that
  stepTrace,      \* collaborator calls of the latest step of the runner, in order
  nCriticTrain,   \* critic.train_on_batch calls of this episode
  nActorTrain,    \* actor.train_on_batch calls of this episode
  sampled,        \* the action build_nn_output returned in the latest step
  envAction,      \* the action env.step received in the latest step
  criticCall,     \* arguments of the latest critic.train_on_batch call
  actorCall,      \* arguments of the latest actor.train_on_batch call
  lastStep,       \* reward, terminal flag and states of the latest env.step
  renderFaulty    \* env.render may raise

vars == <<entry, tpc, i, stddev, stddev_delta, actorParams, criticParams, testN,
          testIdx, ave_reward, ave_steps, snap, runner, render, recorder,
          epStddev, epc, num_cars, old_state, total_reward, num_steps, episode, Gt,
          walkIdx, state_batch, target_batch, retval, resets, envRewards, termSeen,
          stepsAfterTerm, stepTrace, nCriticTrain, nActorTrain, sampled, envAction,
          criticCall, actorCall, lastStep, renderFaulty>>

trainerVars == <<i, stddev, stddev_delta, testN, testIdx, ave_reward, ave_steps,
                 snap>>

walkVars == <<Gt, walkIdx, state_batch, target_batch>>

----------------------------------------------------------------------------
(* Bounds of the model *)

\* the environment signals is_terminal at the latest at this step
MaxSteps == 3
\* direct calls of a runner use 1..MaxCars agents
MaxCars == 2
\* a direct call of a runner passes a stddev from TestStdDev..MaxStddev
MaxStddev == 3
\* stddev_delta is drawn from 0..MaxDelta
MaxDelta == 2

(* Program constants, scaled *)

\* num_training_iterations = 20000
NumTrainingIterations == 2
\* testing_frequency = 200
TestingFrequency == 2
\* get_test_reward(..., 5) inside the loop
PeriodicTestEpisodes == 2
\* get_test_reward(..., 50) after the loop
FinalTestEpisodes == 1
\* test_std_dev = 0.00001
TestStdDev == 1
\* stddev = 0.1
InitialStddev == 3
\* stddev_min = 0.0001
StddevMin == 2
\* gym.make('coop4cars-v0')
MainCars == 4
\* env.get_max_accel()
MaxAccel == 1

\* rewards env.step may return: -0.5, 1.0, 2.0
Rewards == {-1, 2, 4}
\* standard-normal draws (x, y) of one sampling
ZVecs == {<<0, 0>>, <<2, -2>>}

----------------------------------------------------------------------------
(* Helpers *)

RECURSIVE Sum(_)
Sum(s) == IF s = <<>> THEN 0 ELSE Head(s) + Sum(Tail(s))

RECURSIVE Concatenate(_)
\* np.concatenate over a list of arrays, along the first axis
Concatenate(list) == IF list = <<>> THEN <<>> ELSE Head(list) \o Concatenate(Tail(list))

VecSub(a, b) == [k \in 1..Len(a) |-> a[k] - b[k]]

\* np.array(action).transpose(): 2 x cars to cars x 2
Transpose(action) ==
  [c \in 1..Len(action[1]) |-> [d \in 1..Len(action) |-> action[d][c]]]

----------------------------------------------------------------------------
(* The module `interface` *)

\* build_state_rep(state): one input row per agent
BuildStateRep(state, n) == [c \in 1..n |-> <<"rep", state, c>>]

\* interface.build_whole_state(state): one input row per agent
BuildWholeState(state, n) == [c \in 1..n |-> <<"whole", state, c>>]

\* interface.build_nn_output(pred, std_x, std_y): mean plus Gaussian noise,
\* one list per axis
BuildNNOutput(pred, z, std_x, std_y) ==
  << [c \in 1..Len(pred) |-> pred[c][1] + std_x * z[1]],
     [c \in 1..Len(pred) |-> pred[c][2] + std_y * z[2]] >>

Clamp(x, m) == IF x > m THEN m ELSE IF x < -m THEN -m ELSE x

\* interface.clip_output(action, max_accel): elementwise saturation, the
\* argument is left as it is
ClipOutput(action, m) ==
  [d \in 1..Len(action) |-> [c \in 1..Len(action[d]) |-> Clamp(action[d][c], m)]]

----------------------------------------------------------------------------
(* The networks *)

\* actor forward pass: one 2-D mean per input row, inside the tanh range
ActorPredict(params, rep) ==
  [r \in 1..Len(rep) |-> << ((params + rep[r][2] + rep[r][3]) % 3) - 1,
                            ((params + rep[r][3]) % 3) - 1 >>]

\* critic forward pass: one value per input row
CriticPredict(params, whole) ==
  [r \in 1..Len(whole) |-> ((2 * params + whole[r][2] + whole[r][3]) % 4) - 1]

\* train_on_batch: one gradient step
TrainOnBatch(params) == params + 1

PredictOnBatch_trains(params, rep) ==
  [pred |-> ActorPredict(params, rep), params |-> TrainOnBatch(params)]

\* nn.predict_on_batch(state_rep) in run_nn_policy: the prediction, and the
\* parameters the call leaves
PredictOnBatch(params, rep) ==
  [pred |-> ActorPredict(params, rep), params |-> params]

----------------------------------------------------------------------------
(* Pieces of the runners *)

EnvStepArg_unclipped(action, clipped_action) == action

\* the argument of env.step
EnvStepArg(action, clipped_action) == clipped_action

\* action_t of run_actor_critic_episode
ACTargetAction(action, clipped_action) == Transpose(action)

LoopExit_never(is_terminal) == FALSE

\* `if is_terminal: break`
LoopExit(is_terminal) == is_terminal

ACNextReward_skipsLast(n, is_terminal, critic_new, reward) ==
  LET base == IF is_terminal THEN [k \in 1..n |-> 0] ELSE critic_new
  IN  [k \in 1..Len(base) |-> IF k < n THEN base[k] + reward ELSE base[k]]

\* next_reward of run_actor_critic_episode
ACNextReward(n, is_terminal, critic_new, reward) ==
  LET base == IF is_terminal THEN [k \in 1..n |-> 0] ELSE critic_new
  IN  [k \in 1..Len(base) |-> IF k <= n THEN base[k] + reward ELSE base[k]]

\* next_reward of run_monte_carlo_episode
MCNextReward(n, is_terminal, critic_new, reward) ==
  LET base == IF is_terminal THEN <<0>> ELSE critic_new
  IN  [k \in 1..Len(base) |-> IF k = 1 THEN base[k] + reward ELSE base[k]]

ACCurReward_afterTraining(params, whole) == CriticPredict(TrainOnBatch(params), whole)

\* cur_reward of run_actor_critic_episode
ACCurReward(params, whole) == CriticPredict(params, whole)

\* target of run_actor_critic_episode, each entry the fraction <<num, den>>
ACTarget(action_t, pred, sd, delta) ==
  [c \in 1..Len(pred) |->
     [d \in 1..2 |-> << (action_t[c][d] - pred[c][d]) * delta[c] + pred[c][d] * (sd * sd),
                        sd * sd >>]]

\* target of run_monte_carlo_episode, each entry the fraction <<num, den>>
MCTarget(action_t, pred, var, G, critic_reward) ==
  [c \in 1..Len(pred) |->
     [d \in 1..2 |-> << (action_t[c][d] - pred[c][d]) * (G - critic_reward)
                          + pred[c][d] * var,
                        var >>]]

BatchAppend_keepsLast(batch, x) == <<x>>

\* state_batch.append(state_rep), target_batch.append(target)
BatchAppend(batch, x) == Append(batch, x)

\* Gt = total_reward
GtInit(total) == total

GtNext_adds(G, reward) == G + reward

\* Gt -= reward
GtNext(G, reward) == G - reward

\* if stddev > stddev_min: stddev -= stddev_delta
Anneal(sd, delta) == IF sd > StddevMin THEN sd - delta ELSE sd

\* is_terminal as the environment may report it at its k-th step
TerminalChoices(k) == IF k >= MaxSteps THEN {TRUE} ELSE BOOLEAN

\* outcomes of one env.render call: TRUE returns, FALSE raises
RenderOutcomes == IF renderFaulty THEN BOOLEAN ELSE {TRUE}

----------------------------------------------------------------------------
(* Initial states *)

Init ==
  /\ entry \in {"main", "call"}
  /\ tpc = IF entry = "main" THEN "for" ELSE "call"
  /\ num_cars \in IF entry = "main" THEN {MainCars} ELSE 1..MaxCars
  /\ i = 0
  /\ stddev = InitialStddev
  /\ stddev_delta \in IF entry = "main" THEN 0..MaxDelta ELSE {0}
  /\ actorParams = 0
  /\ criticParams = 0
  /\ testN = 0 /\ testIdx = 0 /\ ave_reward = 0 /\ ave_steps = 0
  /\ snap = <<>>
  /\ runner = "none" /\ render = FALSE /\ recorder = FALSE /\ epStddev = 0
  /\ epc = "idle"
  /\ old_state = 0 /\ total_reward = 0 /\ num_steps = 0
  /\ episode = <<>> /\ Gt = 0 /\ walkIdx = 0
  /\ state_batch = <<>> /\ target_batch = <<>>
  /\ retval = <<>>
  /\ resets = 0 /\ envRewards = <<>> /\ termSeen = FALSE /\ stepsAfterTerm = 0
  /\ stepTrace = <<>> /\ nCriticTrain = 0 /\ nActorTrain = 0
  /\ sampled = <<>> /\ envAction = <<>> /\ criticCall = <<>> /\ actorCall = <<>>
  /\ lastStep = <<>>
  /\ renderFaulty = FALSE

\* as Init, with an env.render that may raise; runners are called directly
InitFault ==
  /\ entry = "call"
  /\ tpc = "call"
  /\ num_cars \in 1..MaxCars
  /\ i = 0
  /\ stddev = InitialStddev
  /\ stddev_delta = 0
  /\ actorParams = 0
  /\ criticParams = 0
  /\ testN = 0 /\ testIdx = 0 /\ ave_reward = 0 /\ ave_steps = 0
  /\ snap = <<>>
  /\ runner = "none" /\ render = FALSE /\ recorder = FALSE /\ epStddev = 0
  /\ epc = "idle"
  /\ old_state = 0 /\ total_reward = 0 /\ num_steps = 0
  /\ episode = <<>> /\ Gt = 0 /\ walkIdx = 0
  /\ state_batch = <<>> /\ target_batch = <<>>
  /\ retval = <<>>
  /\ resets = 0 /\ envRewards = <<>> /\ termSeen = FALSE /\ stepsAfterTerm = 0
  /\ stepTrace = <<>> /\ nCriticTrain = 0 /\ nActorTrain = 0
  /\ sampled = <<>> /\ envAction = <<>> /\ criticCall = <<>> /\ actorCall = <<>>
  /\ lastStep = <<>>
  /\ renderFaulty = TRUE

----------------------------------------------------------------------------
(* Entering a runner: the code from the def line to the head of its loop *)

\* what every runner starts from: env.reset() and the zeroed bookkeeping
FreshEpisode ==
  /\ old_state' = 0
  /\ total_reward' = 0 /\ num_steps' = 0
  /\ episode' = <<>> /\ Gt' = 0 /\ walkIdx' = 0
  /\ state_batch' = <<>> /\ target_batch' = <<>>
  /\ retval' = <<>>
  /\ resets' = 1 /\ envRewards' = <<>> /\ termSeen' = FALSE /\ stepsAfterTerm' = 0
  /\ nCriticTrain' = 0 /\ nActorTrain' = 0
  /\ sampled' = <<>> /\ envAction' = <<>> /\ criticCall' = <<>> /\ actorCall' = <<>>
  /\ lastStep' = <<>>

\* run_nn_policy up to `while True`
NNEnter(sd, rnd, rec) ==
  /\ runner' = "nn" /\ epStddev' = sd /\ render' = rnd /\ recorder' = rec
  /\ FreshEpisode
  /\ stepTrace' = <<"env.reset">>
  /\ epc' = "loop"

\* run_actor_critic_episode up to `while True`
ACEnter(sd, rnd, rok) ==
  /\ runner' = "ac" /\ epStddev' = sd /\ render' = rnd /\ recorder' = FALSE
  /\ FreshEpisode
  /\ stepTrace' = IF rnd THEN <<"env.reset", "env.render">> ELSE <<"env.reset">>
  /\ epc' = IF rnd /\ ~rok THEN "raised" ELSE "loop"

\* run_monte_carlo_episode up to `while True`
MCEnter(sd, rnd, rok) ==
  /\ runner' = "mc" /\ epStddev' = sd /\ render' = rnd /\ recorder' = FALSE
  /\ FreshEpisode
  /\ stepTrace' = IF rnd THEN <<"env.reset", "env.render">> ELSE <<"env.reset">>
  /\ epc' = IF rnd /\ ~rok THEN "raised" ELSE "loop"

----------------------------------------------------------------------------
(* One iteration of a runner's loop *)

\* what env.step leaves behind, whatever the runner
EnvStepped(action, arg, pred, new_state, reward, is_terminal) ==
  /\ envRewards' = Append(envRewards, reward)
  /\ termSeen' = (termSeen \/ is_terminal)
  /\ stepsAfterTerm' = stepsAfterTerm + (IF termSeen THEN 1 ELSE 0)
  /\ sampled' = action
  /\ envAction' = arg
  /\ lastStep' = [old |-> old_state, new |-> new_state, reward |-> reward,
                  terminal |-> is_terminal, pred |-> pred,
                  criticBefore |-> criticParams, actorBefore |-> actorParams]

\* one iteration of the loop of run_nn_policy
NNStep ==
  /\ runner = "nn" /\ epc = "loop"
  /\ \E z \in ZVecs, reward \in Rewards,
        is_terminal \in TerminalChoices(Len(envRewards) + 1), rok \in RenderOutcomes :
       LET state_rep == BuildStateRep(old_state, num_cars)
           out == PredictOnBatch(actorParams, state_rep)
           pred == out.pred
           action == BuildNNOutput(pred, z, epStddev, epStddev)
           clipped_action == ClipOutput(action, MaxAccel)
           new_state == Len(envRewards) + 1
           mode == IF recorder THEN "env.render.rgb_array" ELSE "env.render.human"
           raised == render /\ ~rok
       IN  /\ actorParams' = out.params
           /\ EnvStepped(action, EnvStepArg(action, clipped_action), pred,
                         new_state, reward, is_terminal)
           /\ stepTrace' = <<"actor.predict", "env.step">>
                             \o (IF render THEN <<mode>> ELSE <<>>)
           /\ IF raised
                THEN /\ epc' = "raised"
                     /\ UNCHANGED <<old_state, total_reward, num_steps, retval>>
                ELSE /\ old_state' = new_state
                     /\ total_reward' = total_reward + reward
                     /\ num_steps' = num_steps + 1
                     /\ epc' = IF LoopExit(is_terminal) THEN "returned" ELSE "loop"
                     /\ retval' = IF LoopExit(is_terminal)
                                    THEN <<total_reward + reward, num_steps + 1>>
                                    ELSE retval
  /\ UNCHANGED <<entry, tpc, trainerVars, criticParams, runner, render, recorder,
                 epStddev, num_cars, episode, walkVars, resets, nCriticTrain,
                 nActorTrain, criticCall, actorCall, renderFaulty>>

\* one iteration of the loop of run_actor_critic_episode
ACStep ==
  /\ runner = "ac" /\ epc = "loop"
  /\ \E z \in ZVecs, reward \in Rewards,
        is_terminal \in TerminalChoices(Len(envRewards) + 1), rok \in RenderOutcomes :
       LET old_state_rep == BuildStateRep(old_state, num_cars)
           pred == ActorPredict(actorParams, old_state_rep)
           action == BuildNNOutput(pred, z, epStddev, epStddev)
           clipped_action == ClipOutput(action, MaxAccel)
           new_state == Len(envRewards) + 1
           critic_new == CriticPredict(criticParams, BuildWholeState(new_state, num_cars))
           next_reward == ACNextReward(num_cars, is_terminal, critic_new, reward)
           cur_reward == ACCurReward(criticParams, BuildWholeState(old_state, num_cars))
           delta == VecSub(next_reward, cur_reward)
           action_t == ACTargetAction(action, clipped_action)
           target == ACTarget(action_t, pred, epStddev, delta)
           raised == render /\ ~rok
       IN  /\ EnvStepped(action, EnvStepArg(action, clipped_action), pred,
                         new_state, reward, is_terminal)
           /\ criticParams' = TrainOnBatch(criticParams)
           /\ criticCall' = [input |-> BuildWholeState(old_state, num_cars),
                             target |-> next_reward]
           /\ nCriticTrain' = nCriticTrain + 1
           /\ actorParams' = TrainOnBatch(actorParams)
           /\ actorCall' = [input |-> old_state_rep, target |-> target]
           /\ nActorTrain' = nActorTrain + 1
           /\ stepTrace' = <<"actor.predict", "env.step">>
                             \o (IF is_terminal THEN <<>> ELSE <<"critic.predict.new">>)
                             \o <<"critic.predict.old", "critic.train", "actor.train">>
                             \o (IF render THEN <<"env.render">> ELSE <<>>)
           /\ IF raised
                THEN /\ epc' = "raised"
                     /\ UNCHANGED <<old_state, total_reward, num_steps, retval>>
                ELSE /\ old_state' = new_state
                     /\ total_reward' = total_reward + reward
                     /\ num_steps' = num_steps + 1
                     /\ epc' = IF LoopExit(is_terminal) THEN "returned" ELSE "loop"
                     /\ retval' = IF LoopExit(is_terminal)
                                    THEN <<total_reward + reward, num_steps + 1>>
                                    ELSE retval
  /\ UNCHANGED <<entry, tpc, trainerVars, runner, render, recorder, epStddev,
                 num_cars, episode, walkVars, resets, renderFaulty>>

\* one iteration of the loop of run_monte_carlo_episode; the terminal one
\* goes on to the initialisation of the walk
MCStep ==
  /\ runner = "mc" /\ epc = "loop"
  /\ \E z \in ZVecs, reward \in Rewards,
        is_terminal \in TerminalChoices(Len(envRewards) + 1), rok \in RenderOutcomes :
       LET old_state_rep == BuildStateRep(old_state, num_cars)
           pred == ActorPredict(actorParams, old_state_rep)
           action == BuildNNOutput(pred, z, epStddev, epStddev)
           clipped_action == ClipOutput(action, MaxAccel)
           new_state == Len(envRewards) + 1
           critic_new == CriticPredict(criticParams, BuildWholeState(new_state, num_cars))
           next_reward == MCNextReward(num_cars, is_terminal, critic_new, reward)
           raised == render /\ ~rok
           exits == LoopExit(is_terminal)
       IN  /\ EnvStepped(action, EnvStepArg(action, clipped_action), pred,
                         new_state, reward, is_terminal)
           /\ episode' = Append(episode, [state_rep |-> old_state_rep, state |-> old_state,
                                          pred |-> pred, action |-> action,
                                          reward |-> reward])
           /\ criticParams' = TrainOnBatch(criticParams)
           /\ criticCall' = [input |-> BuildWholeState(old_state, num_cars),
                             target |-> next_reward]
           /\ nCriticTrain' = nCriticTrain + 1
           /\ stepTrace' = <<"actor.predict", "env.step">>
                             \o (IF is_terminal THEN <<>> ELSE <<"critic.predict.new">>)
                             \o <<"critic.train">>
                             \o (IF render THEN <<"env.render">> ELSE <<>>)
           /\ IF raised
                THEN /\ epc' = "raised"
                     /\ UNCHANGED <<old_state, total_reward, num_steps, Gt>>
                ELSE /\ old_state' = new_state
                     /\ total_reward' = total_reward + reward
                     /\ num_steps' = num_steps + 1
                     /\ epc' = IF exits THEN "walk" ELSE "loop"
                     /\ Gt' = IF exits THEN GtInit(total_reward + reward) ELSE Gt
  /\ UNCHANGED <<entry, tpc, trainerVars, actorParams, runner, render, recorder,
                 epStddev, num_cars, walkIdx, state_batch, target_batch, retval,
                 resets, nActorTrain, actorCall, renderFaulty>>

\* one iteration of the walk over the episode
MCWalk ==
  /\ runner = "mc" /\ epc = "walk" /\ walkIdx < Len(episode)
  /\ LET tr == episode[walkIdx + 1]
         var == epStddev * epStddev
         action_t == Transpose(tr.action)
         critic_reward ==
           CriticPredict(criticParams, BuildWholeState(tr.state, num_cars))[1]
         target == MCTarget(action_t, tr.pred, var, Gt, critic_reward)
     IN  /\ state_batch' = BatchAppend(state_batch, tr.state_rep)
         /\ target_batch' = BatchAppend(target_batch, target)
         /\ Gt' = GtNext(Gt, tr.reward)
         /\ walkIdx' = walkIdx + 1
         /\ stepTrace' = <<"critic.predict.old">>
  /\ UNCHANGED <<entry, tpc, trainerVars, actorParams, criticParams, runner, render,
                 recorder, epStddev, epc, num_cars, old_state, total_reward, num_steps,
                 episode, retval, resets, envRewards, termSeen, stepsAfterTerm,
                 nCriticTrain, nActorTrain, sampled, envAction, criticCall, actorCall,
                 lastStep, renderFaulty>>

\* the batched actor.train_on_batch after the walk, and the return
MCTrain ==
  /\ runner = "mc" /\ epc = "walk" /\ walkIdx = Len(episode)
  /\ actorParams' = TrainOnBatch(actorParams)
  /\ actorCall' = [input |-> Concatenate(state_batch),
                   target |-> Concatenate(target_batch)]
  /\ nActorTrain' = nActorTrain + 1
  /\ stepTrace' = <<"actor.train">>
  /\ retval' = <<total_reward, num_steps>>
  /\ epc' = "returned"
  /\ UNCHANGED <<entry, tpc, trainerVars, criticParams, runner, render, recorder,
                 epStddev, num_cars, old_state, total_reward, num_steps, episode,
                 walkVars, resets, envRewards, termSeen, stepsAfterTerm, nCriticTrain,
                 sampled, envAction, criticCall, lastStep, renderFaulty>>

----------------------------------------------------------------------------
(* main() and get_test_reward() *)

episodeVars == <<runner, render, recorder, epStddev, old_state, total_reward,
                 num_steps, episode, Gt, walkIdx, state_batch, target_batch, retval,
                 resets, envRewards, termSeen, stepsAfterTerm, stepTrace, nCriticTrain,
                 nActorTrain, sampled, envAction, criticCall, actorCall, lastStep>>

\* the entry of get_test_reward(env, actor, critic, build_state_rep, std, n)
GetTestRewardEnter(n, sd) ==
  /\ testN' = n /\ testIdx' = 0
  /\ ave_reward' = 0 /\ ave_steps' = 0
  /\ snap' = <<actorParams, criticParams, sd>>

\* `for i in range(num_training_iterations)`: the call of run_monte_carlo_episode
MainCallMC ==
  /\ entry = "main" /\ tpc = "for" /\ epc = "idle"
  /\ i < NumTrainingIterations
  /\ MCEnter(stddev, FALSE, TRUE)
  /\ tpc' = "train"
  /\ UNCHANGED <<entry, trainerVars, actorParams, criticParams, num_cars, renderFaulty>>

\* the rest of the loop body up to the call of get_test_reward
MainAfterEpisode ==
  /\ entry = "main" /\ tpc = "train" /\ epc = "returned"
  /\ stddev' = Anneal(stddev, stddev_delta)
  /\ epc' = "idle"
  /\ IF i % TestingFrequency = 0
       THEN /\ GetTestRewardEnter(PeriodicTestEpisodes, stddev')
            /\ tpc' = "test"
            /\ i' = i
       ELSE /\ i' = i + 1
            /\ tpc' = "for"
            /\ UNCHANGED <<testN, testIdx, ave_reward, ave_steps, snap>>
  /\ UNCHANGED <<entry, stddev_delta, actorParams, criticParams, num_cars,
                 episodeVars, renderFaulty>>

\* the loop is exhausted: the final get_test_reward
MainLoopEnd ==
  /\ entry = "main" /\ tpc = "for" /\ epc = "idle"
  /\ i >= NumTrainingIterations
  /\ GetTestRewardEnter(FinalTestEpisodes, stddev)
  /\ tpc' = "final"
  /\ UNCHANGED <<entry, i, stddev, stddev_delta, actorParams, criticParams,
                 num_cars, epc, episodeVars, renderFaulty>>

\* get_test_reward: the call of run_nn_policy
TestCallNN ==
  /\ tpc \in {"test", "final"} /\ epc = "idle"
  /\ testIdx < testN
  /\ NNEnter(TestStdDev, FALSE, FALSE)
  /\ UNCHANGED <<entry, tpc, trainerVars, actorParams, criticParams, num_cars,
                 renderFaulty>>

\* get_test_reward: the accumulation after run_nn_policy returned
TestAccumulate ==
  /\ tpc \in {"test", "final"} /\ epc = "returned"
  /\ ave_reward' = ave_reward + retval[1]
  /\ ave_steps' = ave_steps + retval[2]
  /\ testIdx' = testIdx + 1
  /\ epc' = "idle"
  /\ UNCHANGED <<entry, tpc, i, stddev, stddev_delta, testN, snap,
                 actorParams, criticParams, num_cars, episodeVars, renderFaulty>>

\* get_test_reward: the averages and the return
TestReturn ==
  /\ tpc \in {"test", "final"} /\ epc = "idle"
  /\ testIdx >= testN
  /\ tpc' = IF tpc = "test" THEN "print" ELSE "final_print"
  /\ UNCHANGED <<entry, trainerVars, actorParams, criticParams, num_cars, epc,
                 episodeVars, renderFaulty>>

\* print(ave_reward, ave_steps, stddev) and the end of the loop body; the
\* averages are dead after it
MainPrint ==
  /\ tpc \in {"print", "final_print"}
  /\ ave_reward' = 0 /\ ave_steps' = 0
  /\ IF tpc = "print"
       THEN i' = i + 1 /\ tpc' = "for"
       ELSE i' = i /\ tpc' = "done"
  /\ UNCHANGED <<entry, stddev, stddev_delta, testN, testIdx, snap, actorParams,
                 criticParams, num_cars, epc, episodeVars, renderFaulty>>

\* a direct call of one runner, with any arguments
DirectCall ==
  /\ entry = "call" /\ tpc = "call" /\ epc = "idle"
  /\ \E sd \in TestStdDev..MaxStddev, rnd \in BOOLEAN, rok \in RenderOutcomes :
       \/ \E rec \in BOOLEAN : NNEnter(sd, rnd, rec)
       \/ ACEnter(sd, rnd, rok)
       \/ MCEnter(sd, rnd, rok)
  /\ tpc' = "called"
  /\ UNCHANGED <<entry, trainerVars, actorParams, criticParams, num_cars, renderFaulty>>

----------------------------------------------------------------------------
(* Specifications *)

Runners == NNStep \/ ACStep \/ MCStep \/ MCWalk \/ MCTrain

Next ==
  \/ MainCallMC
  \/ MainAfterEpisode
  \/ MainLoopEnd
  \/ TestCallNN
  \/ TestAccumulate
  \/ TestReturn
  \/ MainPrint
  \/ DirectCall
  \/ Runners

Spec == Init /\ [][Next]_vars

\* the program is one thread that always takes its next step
FairSpec == Spec /\ WF_vars(Next)

NextFault == DirectCall \/ Runners

\* direct calls of the runners against an env.render that may raise
SpecFault == InitFault /\ [][NextFault]_vars

----------------------------------------------------------------------------
(* Properties *)

\* the return credited to transition k of the recorded episode: the total
\* of the rewards the environment returned minus those of the steps before k
ReturnFrom(k) == Sum(envRewards) - Sum(SubSeq(envRewards, 1, k - 1))

\* the target the walk owes transition k
WalkTarget(k) ==
  MCTarget(Transpose(episode[k].action), episode[k].pred, epStddev * epStddev,
           ReturnFrom(k),
           CriticPredict(criticParams, BuildWholeState(episode[k].state, num_cars))[1])

\* the critic's values for the old state of the latest step, before that
\* step's training call
CriticBeforeOnOld ==
  CriticPredict(lastStep.criticBefore, BuildWholeState(lastStep.old, num_cars))

InBounds(a) ==
  \A d \in 1..Len(a) : \A c \in 1..Len(a[d]) : -MaxAccel <= a[d][c] /\ a[d][c] <= MaxAccel

Occurrences(trace, name) == Cardinality({k \in 1..Len(trace) : trace[k] = name})

Position(trace, name) == CHOOSE k \in 1..Len(trace) : trace[k] = name

\* C1: during the walk of run_monte_carlo_episode the running return is the
\* episode's total reward minus the rewards of the transitions already
\* consumed, every target accumulated so far was computed with the return of
\* its own transition, and the running return is 0 once the last transition
\* has been consumed.
C1_RunningReturn ==
  (runner = "mc" /\ epc \in {"walk", "returned"}) =>
    /\ Gt = ReturnFrom(walkIdx + 1)
    /\ Len(target_batch) = walkIdx
    /\ \A k \in 1..walkIdx : target_batch[k] = WalkTarget(k)
    /\ (walkIdx = 0 => Gt = Sum(envRewards))
    /\ (walkIdx = Len(envRewards) => Gt = 0)

\* the rewards 1.0, 2.0, -0.5: the walk has used 2.5 for step 0 and holds 1.5
C1_Witness ==
  /\ runner = "mc" /\ epc = "walk"
  /\ envRewards = <<2, 4, -1>>
  /\ walkIdx = 1 /\ Gt = 3

\* C2: after a step of run_actor_critic_episode for which the environment
\* reported is_terminal, the critic was not queried on the new state and the
\* critic's training target holds the step's reward once for every agent.
C2_TerminalTarget ==
  (runner = "ac" /\ envRewards # <<>> /\ lastStep.terminal) =>
    /\ Occurrences(stepTrace, "critic.predict.new") = 0
    /\ Len(criticCall.target) = num_cars
    /\ \A k \in 1..num_cars : criticCall.target[k] = lastStep.reward

C2_Witness ==
  /\ runner = "ac" /\ epc = "returned" /\ num_cars = 2
  /\ Len(envRewards) = 2
  /\ criticCall.target = <<4, 4>>

\* C3: inside and right after get_test_reward the parameters of the actor and
\* of the critic and the stddev of main are those of its entry, and
\* run_nn_policy issues no training call, whoever calls it.
C3_EvaluationFrame ==
  /\ (tpc \in {"test", "final", "print", "final_print"}) =>
       <<actorParams, criticParams, stddev>> = snap
  /\ (runner = "nn") =>
       /\ nActorTrain = 0 /\ nCriticTrain = 0
       /\ Occurrences(stepTrace, "actor.train") = 0
       /\ Occurrences(stepTrace, "critic.train") = 0
       /\ (envRewards # <<>> => /\ actorParams = lastStep.actorBefore
                                /\ criticParams = lastStep.criticBefore)

\* an evaluation pass of two episodes, one of them longer than one step, is over
C3_Witness ==
  /\ tpc = "print" /\ testN = 2 /\ testIdx = 2 /\ ave_steps >= 3
  /\ runner = "nn" /\ actorParams > 0 /\ criticParams > 0

\* C4: env.step receives the clipped action, every component within
\* [-max_accel, max_accel]; the actor target of an actor-critic step is
\* computed from the action as sampled, and so is every target of the
\* Monte-Carlo walk, from the action recorded in the transition, which is the
\* action as sampled.
C4_ClippedToEnvUnclippedToTarget ==
  /\ (envRewards # <<>>) =>
       /\ InBounds(envAction)
       /\ envAction = ClipOutput(sampled, MaxAccel)
  /\ (runner = "ac" /\ envRewards # <<>>) =>
       actorCall.target = ACTarget(Transpose(sampled), lastStep.pred, epStddev,
                                   VecSub(criticCall.target, CriticBeforeOnOld))
  /\ (runner = "mc" /\ envRewards # <<>>) =>
       /\ episode[Len(episode)].action = sampled
       /\ \A k \in 1..Len(target_batch) : target_batch[k] = WalkTarget(k)

\* an actor-critic step whose sampled action was out of bounds and whose
\* target differs from the one the clipped action would give
C4_Witness ==
  /\ runner = "ac" /\ envRewards # <<>>
  /\ ~InBounds(sampled)
  /\ actorCall.target # ACTarget(Transpose(envAction), lastStep.pred, epStddev,
                                 VecSub(criticCall.target, CriticBeforeOnOld))

\* C5: the stddev of main never increases and never falls below stddev_min.
C5_MonotoneAboveFloor ==
  [][stddev' <= stddev /\ stddev' >= StddevMin]_vars

\* C6: run_monte_carlo_episode issues no actor training call before the walk
\* is over, and exactly one by its return, whose batch holds one state_rep and
\* one target for every recorded transition, in recording order; the walk
\* consumes the transitions one by one, each once.
C6_OneBatchedActorCall ==
  (runner = "mc") =>
    /\ Len(episode) = Len(envRewards)
    /\ \A k \in 1..Len(episode) : episode[k].state = k - 1
    /\ (epc \in {"loop", "walk"}) => nActorTrain = 0
    /\ (epc = "loop") => (walkIdx = 0 /\ state_batch = <<>> /\ target_batch = <<>>)
    /\ (epc \in {"walk", "returned"}) =>
         /\ walkIdx <= Len(episode)
         /\ Len(state_batch) = walkIdx /\ Len(target_batch) = walkIdx
         /\ \A k \in 1..walkIdx : state_batch[k] = episode[k].state_rep
    /\ (epc = "returned") =>
         /\ termSeen
         /\ nActorTrain = 1
         /\ walkIdx = Len(episode)
         /\ actorCall.input =
              Concatenate([k \in 1..Len(episode) |-> BuildStateRep(k - 1, num_cars)])
         /\ actorCall.target = Concatenate([k \in 1..Len(episode) |-> WalkTarget(k)])
         /\ Len(actorCall.input) = Len(episode) * num_cars
         /\ Len(actorCall.target) = Len(episode) * num_cars

C6_Witness ==
  /\ runner = "mc" /\ epc = "returned"
  /\ Len(episode) = 3 /\ nActorTrain = 1

\* C7: the critic target of a step of run_monte_carlo_episode is the one
\* run_actor_critic_episode computes from the same inputs, and the critic is
\* trained once per step on old_state.
C7_SameCriticTarget ==
  (runner = "mc" /\ envRewards # <<>>) =>
    /\ nCriticTrain = Len(envRewards)
    /\ criticCall.input = BuildWholeState(lastStep.old, num_cars)
    /\ criticCall.target =
         ACNextReward(num_cars, lastStep.terminal,
                      CriticPredict(lastStep.criticBefore,
                                    BuildWholeState(lastStep.new, num_cars)),
                      lastStep.reward)

\* C8: env.render never aborts a runner, and between steps the bookkeeping
\* of every runner is that of the env.step calls made.
C8_RenderHarmless ==
  (runner # "none") =>
    /\ epc # "raised"
    /\ num_steps = Len(envRewards)
    /\ total_reward = Sum(envRewards)

\* C9: a runner resets the environment once, steps it until the first step
\* that signals is_terminal and never after, has no other way out of its
\* loop, and returns the sum of the rewards and the number of the steps;
\* once is_terminal was signaled the runner has returned or can go on to its
\* return.
C9_ResetStepTerminal ==
  (runner # "none") =>
    /\ resets = 1
    /\ stepsAfterTerm = 0
    /\ num_steps = Len(envRewards)
    /\ total_reward = Sum(envRewards)
    /\ (~termSeen) => (epc = "loop" /\ retval = <<>>)
    /\ termSeen =>
         /\ lastStep.terminal
         /\ epc \in {"walk", "returned", "idle"}
         /\ (runner \in {"nn", "ac"}) => epc \in {"returned", "idle"}
         /\ (epc = "walk") => (walkIdx <= Len(episode) /\ ENABLED (MCWalk \/ MCTrain))
    /\ (epc \in {"returned", "idle"}) =>
         /\ termSeen
         /\ Len(envRewards) >= 1
         /\ retval = <<Sum(envRewards), Len(envRewards)>>

\* under FairSpec: a runner in its loop returns (the environment of the
\* model signals is_terminal within MaxSteps steps)
RunnerReturns == (runner # "none" /\ epc = "loop") ~> (epc = "returned")

C9_Witness ==
  /\ runner = "mc" /\ epc = "returned"
  /\ retval = <<5, 3>> /\ envRewards = <<2, 4, -1>>

\* C10: every step of run_actor_critic_episode, the terminal one included,
\* makes after its env.step one critic training call and then one actor
\* training call; the critic is trained on old_state toward next_value, and
\* the advantage of the actor target is next_value minus the critic's
\* prediction for old_state before that training call.
C10_CriticThenActor ==
  (runner = "ac" /\ envRewards # <<>>) =>
    /\ Occurrences(stepTrace, "env.step") = 1
    /\ Occurrences(stepTrace, "critic.train") = 1
    /\ Occurrences(stepTrace, "actor.train") = 1
    /\ Position(stepTrace, "env.step") < Position(stepTrace, "critic.train")
    /\ Position(stepTrace, "critic.train") < Position(stepTrace, "actor.train")
    /\ nCriticTrain = Len(envRewards)
    /\ nActorTrain = Len(envRewards)
    /\ criticParams = lastStep.criticBefore + 1
    /\ criticCall.input = BuildWholeState(lastStep.old, num_cars)
    /\ criticCall.target =
         [k \in 1..num_cars |->
            (IF lastStep.terminal
               THEN 0
               ELSE CriticPredict(lastStep.criticBefore,
                                  BuildWholeState(lastStep.new, num_cars))[k])
            + lastStep.reward]
    /\ actorCall.input = BuildStateRep(lastStep.old, num_cars)
    /\ actorCall.target = ACTarget(Transpose(sampled), lastStep.pred, epStddev,
                                   VecSub(criticCall.target, CriticBeforeOnOld))
    /\ (epc = "returned") => (nCriticTrain = retval[2] /\ nActorTrain = retval[2])

C10_Witness ==
  /\ runner = "ac" /\ epc = "returned"
  /\ nCriticTrain = 3 /\ nActorTrain = 3 /\ lastStep.terminal

====
